---------------------------- MODULE Spec2Model ----------------------------
(***************************************************************************)
(* brang: change detection for remote pages.                               *)
(*                                                                         *)
(* The model covers brang/change_checker.py (fingerprint, transform,       *)
(* pattern functions, NaiveCheckStrategy, HfcInvarianceCheckStrategy,      *)
(* ChangeChecker) and the parts of brang/database.py the strategies use    *)
(* (Site, SiteChange, insert_site, remove_site, get_all_sites,             *)
(* insert_site_change_entry, get_latest_sitechange).                       *)
(*                                                                         *)
(* A text is a sequence of one-character strings.  A digest is modelled as *)
(* a record that wraps the hashed text: equal texts give equal digests and *)
(* different texts different digests.                                      *)
(*                                                                         *)
(* Time is a counter that every request advances by one.  The default of   *)
(* insert_site_change_entry's timestamp is evaluated once per process      *)
(* (default_timestamp); NaiveCheckStrategy passes the time of its call,    *)
(* HfcInvarianceCheckStrategy passes none.                                 *)
(*                                                                         *)
(* Four specifications share the state and the actions and differ in the  *)
(* pages that are registered: Spec has the two pages of the test server,   *)
(* SpecVolatile a page of a timestamp line and a body that may gain a      *)
(* paragraph, SpecAny a page that serves any of a few texts, SpecFlaky the  *)
(* ever-changing page and a changing one whose server may fail.  A fifth,   *)
(* SpecText, calls create_fingerprint, create_pattern and apply_pattern on *)
(* every text up to a length.                                              *)
(***************************************************************************)
EXTENDS Integers, Sequences, FiniteSets, TLC

\* The wall clock stops the model at this value (every request takes one tick).
MaxClock == 7

\* The site table stops growing at this Site.id.
MaxSiteId == 2

\* The longest text the functions on texts are evaluated on.
MaxLen == 3

VARIABLES
    site,                   \* table site: sequence of [id, url], in id order
    site_change,            \* table site_change: sequence of rows, in insertion order
    change_check_strategy,  \* ChangeChecker.change_check_strategy
    strategy_arg,           \* the argument ChangeChecker was constructed with
    default_timestamp,      \* the default of insert_site_change_entry's timestamp
    tie_break,              \* how the database orders rows of equal check_timestamp
    clock,                  \* datetime.datetime.now()
    edited,                 \* whether the volatile page has gained its paragraph
    last,                   \* the latest change_check call on the sites as they are
    calls,                  \* per url: the number of change_check calls on its Site row
    runs,                   \* the latest check_all_sites runs (two at most) that
                            \* followed one another with no other call in between
    given,                  \* the text the functions on texts are called with
    returned                \* the latest call of a function on it, and its result

vars == <<site, site_change, change_check_strategy, strategy_arg, default_timestamp,
          tie_break, clock, edited, last, calls, runs, given, returned>>

---------------------------------------------------------------------------
(* Texts *)

NL == "\n"
LT == "<"
COMMA == ","
Digits == <<"0", "1", "2", "3", "4", "5", "6", "7", "8", "9">>

\* str(n) for n >= 0: the decimal digits of n.
RECURSIVE str(_)
str(n) == IF n < 10 THEN <<Digits[n + 1]>>
          ELSE str(n \div 10) \o <<Digits[(n % 10) + 1]>>

\* int(entry) for a string of decimal digits.
RECURSIVE int(_)
int(entry) ==
    IF Len(entry) = 0 THEN 0
    ELSE LET d == CHOOSE k \in 0..9 : Digits[k + 1] = entry[Len(entry)]
         IN  10 * int(SubSeq(entry, 1, Len(entry) - 1)) + d

\* text.replace(old, new) for a one-character old.
RECURSIVE replace(_, _, _)
replace(text, old, new) ==
    IF text = <<>> THEN <<>>
    ELSE (IF Head(text) = old THEN new ELSE <<Head(text)>>)
         \o replace(Tail(text), old, new)

\* text.split(sep) for a one-character sep: always at least one piece.
RECURSIVE split(_, _)
split(text, sep) ==
    IF text = <<>> THEN << <<>> >>
    ELSE LET rest == split(Tail(text), sep)
         IN  IF Head(text) = sep THEN << <<>> >> \o rest
             ELSE << <<Head(text)>> \o Head(rest) >> \o Tail(rest)

\* sep.join(list)
RECURSIVE join(_, _)
join(sep, list) ==
    IF list = <<>> THEN <<>>
    ELSE IF Len(list) = 1 THEN list[1]
    ELSE list[1] \o sep \o join(sep, Tail(list))

\* The list left as it is.
reverse_left_out(list) == list

\* list.reverse()
reverse(list) == [i \in 1..Len(list) |-> list[Len(list) + 1 - i]]

\* del list[i], i counted from 0 and in range.
del(list, i) == SubSeq(list, 1, i) \o SubSeq(list, i + 2, Len(list))

---------------------------------------------------------------------------
(* Results of calls that may raise *)

Return(v) == [raised |-> "", value |-> v]
Raise(e, v) == [raised |-> e, value |-> v]

---------------------------------------------------------------------------
(* change_checker.py: fingerprint, transform, pattern *)

\* A digest that does not depend on the text.
create_fingerprint_constant(text) == [sha224 |-> <<>>]

create_fingerprint(text) == [sha224 |-> text]

NoFingerprint == create_fingerprint(<<>>)

transform(text) == split(replace(text, LT, <<NL, LT>>), NL)

\* The loop of apply_pattern over the reversed entries; IndexError when an
\* entry is not a position of the list as it stands.
RECURSIVE delete_entries(_, _)
delete_entries(p, t_list) ==
    IF p = <<>> THEN Return(t_list)
    ELSE IF Head(p) = <<>> THEN delete_entries(Tail(p), t_list)
    ELSE IF int(Head(p)) >= Len(t_list) THEN Raise("IndexError", <<>>)
    ELSE delete_entries(Tail(p), del(t_list, int(Head(p))))

apply_pattern(pattern, text) ==
    LET p == reverse(split(pattern, COMMA))
        t_list == delete_entries(p, transform(text))
    IN  IF t_list.raised # "" THEN Raise(t_list.raised, NoFingerprint)
        ELSE Return(create_fingerprint(join(<<>>, t_list.value)))

\* The loop that leaves out the first line.
RECURSIVE differing_after_first(_, _, _)
differing_after_first(t_list_1, t_list_2, i) ==
    IF i >= Len(t_list_1) THEN Return(<<>>)
    ELSE IF i >= Len(t_list_2) THEN Raise("IndexError", <<>>)
    ELSE LET rest == differing_after_first(t_list_1, t_list_2, i + 1)
         IN  IF rest.raised # "" THEN rest
             ELSE IF i > 0 /\ t_list_1[i + 1] # t_list_2[i + 1]
             THEN Return(<<i>> \o rest.value)
             ELSE rest

\* The loop of create_pattern from position i (counted from 0) on; IndexError
\* when t_list_2 has no position i.
RECURSIVE differing(_, _, _)
differing(t_list_1, t_list_2, i) ==
    IF i >= Len(t_list_1) THEN Return(<<>>)
    ELSE IF i >= Len(t_list_2) THEN Raise("IndexError", <<>>)
    ELSE LET rest == differing(t_list_1, t_list_2, i + 1)
         IN  IF rest.raised # "" THEN rest
             ELSE IF t_list_1[i + 1] # t_list_2[i + 1] THEN Return(<<i>> \o rest.value)
             ELSE rest

\* The pattern with its positions counted from 1.
create_pattern_one_based(site_t1_text, site_t2_text) ==
    LET t_list_1 == transform(site_t1_text)
        t_list_2 == transform(site_t2_text)
        pattern == differing(t_list_1, t_list_2, 0)
    IN  IF pattern.raised # "" THEN pattern
        ELSE Return(join(<<COMMA>>,
                         [k \in 1..Len(pattern.value) |-> str(pattern.value[k] + 1)]))

\* The pattern that stops at the first difference.
create_pattern_first_difference(site_t1_text, site_t2_text) ==
    LET t_list_1 == transform(site_t1_text)
        t_list_2 == transform(site_t2_text)
        pattern == differing(t_list_1, t_list_2, 0)
    IN  IF pattern.raised # "" THEN pattern
        ELSE Return(join(<<COMMA>>,
                         [k \in 1..(IF pattern.value = <<>> THEN 0 ELSE 1)
                              |-> str(pattern.value[k])]))

\* The pattern with a comma after every position.
create_pattern_trailing_comma(site_t1_text, site_t2_text) ==
    LET t_list_1 == transform(site_t1_text)
        t_list_2 == transform(site_t2_text)
        pattern == differing(t_list_1, t_list_2, 0)
    IN  IF pattern.raised # "" THEN pattern
        ELSE Return(join(<<>>,
                         [k \in 1..Len(pattern.value)
                              |-> str(pattern.value[k]) \o <<COMMA>>]))

create_pattern(site_t1_text, site_t2_text) ==
    LET t_list_1 == transform(site_t1_text)
        t_list_2 == transform(site_t2_text)
        pattern == differing(t_list_1, t_list_2, 0)
    IN  IF pattern.raised # "" THEN pattern
        ELSE Return(join(<<COMMA>>,
                         [k \in 1..Len(pattern.value) |-> str(pattern.value[k])]))

---------------------------------------------------------------------------
(* database.py *)

Site(id, url) == [id |-> id, url |-> url]

SiteChange(id, site_id, fingerprint, pattern, check_timestamp) ==
    [id |-> id, site_id |-> site_id, fingerprint |-> fingerprint,
     pattern |-> pattern, check_timestamp |-> check_timestamp]

NoSiteChange == SiteChange(0, 0, NoFingerprint, <<>>, 0)

\* The id SQLite gives a new row of an INTEGER PRIMARY KEY table.
RECURSIVE max_id(_)
max_id(table) ==
    IF table = <<>> THEN 0
    ELSE LET m == max_id(Tail(table))
         IN  IF Head(table).id > m THEN Head(table).id ELSE m

get_all_sites(sites) == sites

get_site(sites, url) ==
    LET qr == SelectSeq(sites, LAMBDA s : s.url = url)
    IN  IF Len(qr) # 1 THEN Raise("SiteNotFoundException", Site(0, url))
        ELSE Return(qr[1])

\* Site.url is unique.
insert_site(sites, url) ==
    IF \E k \in 1..Len(sites) : sites[k].url = url
    THEN Raise("IntegrityError", sites)
    ELSE Return(Append(sites, Site(max_id(sites) + 1, url)))

\* The delete of the site row alone.
remove_site_row_only(sites, rows, url) ==
    [site |-> SelectSeq(sites, LAMBDA s : s.url # url), site_change |-> rows]

\* session.delete(site): the site row and, by the relationship's cascade, the
\* rows of its site_changes.
remove_site(sites, rows, url) ==
    LET found == get_site(sites, url)
    IN  IF found.raised # "" THEN [site |-> sites, site_change |-> rows]
        ELSE [site |-> SelectSeq(sites, LAMBDA s : s.id # found.value.id),
              site_change |-> SelectSeq(rows, LAMBDA r : r.site_id # found.value.id)]

\* The insert that puts the row in the place of the site's rows.
insert_site_change_entry_in_place(rows, s, fingerprint, pattern, timestamp) ==
    LET others == SelectSeq(rows, LAMBDA r : r.site_id # s.id)
    IN  Return(Append(others, SiteChange(max_id(rows) + 1, s.id, fingerprint,
                                         pattern, timestamp)))

\* The insert that adds the row twice.
insert_site_change_entry_twice(rows, s, fingerprint, pattern, timestamp) ==
    Return(rows \o <<SiteChange(max_id(rows) + 1, s.id, fingerprint, pattern, timestamp),
                      SiteChange(max_id(rows) + 2, s.id, fingerprint, pattern, timestamp)>>)

\* unique_site_fingerprint_timestamp
insert_site_change_entry(rows, s, fingerprint, pattern, timestamp) ==
    IF \E k \in 1..Len(rows) :
           /\ rows[k].site_id = s.id
           /\ rows[k].fingerprint = fingerprint
           /\ rows[k].check_timestamp = timestamp
    THEN Raise("IntegrityError", rows)
    ELSE Return(Append(rows, SiteChange(max_id(rows) + 1, s.id, fingerprint,
                                        pattern, timestamp)))

\* The query in ascending order: the site's row of the least check_timestamp.
get_latest_sitechange_ascending(rows, s) ==
    LET mine == SelectSeq(rows, LAMBDA r : r.site_id = s.id)
    IN  IF mine = <<>> THEN Raise("SiteChangeNotFoundException", NoSiteChange)
        ELSE Return(CHOOSE r \in {mine[k] : k \in 1..Len(mine)} :
                        \A k \in 1..Len(mine) :
                            r.check_timestamp < mine[k].check_timestamp \/ r = mine[k])

\* The query filtered on SiteChange.id in place of SiteChange.site_id.
get_latest_sitechange_by_id(rows, s) ==
    LET mine == SelectSeq(rows, LAMBDA r : r.id = s.id)
    IN  IF mine = <<>> THEN Raise("SiteChangeNotFoundException", NoSiteChange)
        ELSE Return(mine[1])

\* ORDER BY check_timestamp DESC, first(): among rows of equal check_timestamp
\* the order is the database's, fixed for a database (tie_break).
get_latest_sitechange(rows, s) ==
    LET mine == SelectSeq(rows, LAMBDA r : r.site_id = s.id)
    IN  IF mine = <<>> THEN Raise("SiteChangeNotFoundException", NoSiteChange)
        ELSE LET newest == SelectSeq(mine, LAMBDA r :
                               \A k \in 1..Len(mine) :
                                   mine[k].check_timestamp <= r.check_timestamp)
             IN  Return(IF tie_break = "oldest" THEN newest[1]
                        ELSE newest[Len(newest)])

---------------------------------------------------------------------------
(* The pages *)

\* tests/unit_tests/test_changechecker.py, tests/test_server.py
url_fix == "http://localhost:5000/fix"
url_changing == "http://localhost:5000/changing"
\* A page of a timestamp line and a body, and a page that may serve anything.
url_volatile == "http://localhost:5000/volatile"
url_any == "http://localhost:5000/any"
\* A page that changes with every second tick and whose server may fail.
url_flaky == "http://localhost:5000/flaky"

URLs == {url_fix, url_changing, url_volatile, url_any, url_flaky}

void == <<"v", "o", "i", "d">>

\* What url_any may serve: one line, two lines, a line and a tag.
AnyTexts == {<<"a">>, <<"b", NL, "b">>, <<"a", LT, "c">>}

\* What the world decides about one request: whether it succeeds, the text of
\* url_any, and whether the volatile page is edited before it.
Choice(ok, text, edit) == [ok |-> ok, text |-> text, edit |-> edit]

Served(url) ==
    CASE url = url_any ->
             {Choice(TRUE, x, FALSE) : x \in AnyTexts}
      [] url = url_volatile -> {Choice(TRUE, <<>>, e) : e \in BOOLEAN}
      [] url = url_flaky -> {Choice(ok, <<>>, FALSE) : ok \in BOOLEAN}
      [] OTHER -> {Choice(TRUE, <<>>, FALSE)}

\* The volatile page at time t: the timestamp line, then the body.
volatile_page(t, ed) ==
    str(t) \o (IF ed THEN <<LT, "p", LT, "q">> ELSE <<LT, "p">>)

\* r.text of a request made at time t.
page(url, t, ed, c) ==
    CASE url = url_fix -> void
      [] url = url_changing -> str(t)
      [] url = url_flaky -> str(t \div 2)
      [] url = url_volatile -> volatile_page(t, ed)
      [] OTHER -> c.text

\* The request that takes whatever the server answers for the text.
request_site_any_status(s, t, ed, c) ==
    Return(IF c.ok THEN page(s.url, t, ed, c) ELSE <<>>)

request_site(s, t, ed, c) ==
    IF ~c.ok THEN Raise("RequestError", <<>>)
    ELSE Return(page(s.url, t, ed, c))

---------------------------------------------------------------------------
(* The strategies.  A call starts at time t on the table rows; c1 and c2 are *)
(* the world's choices for its first and second request; every request      *)
(* takes one tick.                                                          *)

Done(raised, value, rows, after, latest, fetched, requests, ed) ==
    [raised |-> raised, value |-> value, site_change |-> after,
     wrote |-> SubSeq(after, Len(rows) + 1, Len(after)),
     latest |-> latest, fetched |-> fetched, requests |-> requests, edited |-> ed]

\* The end of both change_check methods: insert the row, return update_detected.
insert_and_return(rows, s, fingerprint, pattern, timestamp, update_detected, latest, fetched, requests, ed) ==
    LET ins == insert_site_change_entry(rows, s, fingerprint, pattern, timestamp)
    IN  Done(ins.raised, update_detected, rows, ins.value, latest, fetched, requests, ed)

NaiveCheckStrategy_change_check(rows, s, t, ed, c1, c2) ==
    LET ed1 == ed \/ c1.edit
        text == request_site(s, t, ed1, c1)
        current_fingerprint == create_fingerprint(text.value)
        current_ts == t + 1
        found == get_latest_sitechange(rows, s)
        latest == IF found.raised = "" THEN <<found.value>> ELSE <<>>
    IN  IF text.raised # ""
        THEN Done(text.raised, FALSE, rows, rows, <<>>, <<>>, 1, ed1)
        ELSE IF found.raised = "" /\ current_fingerprint = found.value.fingerprint
        THEN Done("", FALSE, rows, rows, latest, <<text.value>>, 1, ed1)
        ELSE insert_and_return(rows, s, current_fingerprint, <<>>, current_ts,
                               found.raised = "", latest, <<text.value>>, 1, ed1)

\* The comparison that never finds the fingerprints equal.
nothing_changed_never(current_fingerprint, latest_fingerprint) == FALSE

\* Line 171: the sample's fingerprint is the stored one.
nothing_changed(current_fingerprint, latest_fingerprint) ==
    current_fingerprint = latest_fingerprint

\* update_detected left as it was initialised.
update_detected_left_unset == FALSE

\* Line 176: update_detected once the fingerprints differ.
update_detected_on_difference == TRUE

\* Line 183: the confirmation sample's fingerprint is the candidate.
pattern_still_valid(check_fingerprint, current_fingerprint) ==
    check_fingerprint = current_fingerprint

\* No SiteChange entry: lines 193-199.
Hfc_bootstrap(rows, s, t, ed, c1, c2) ==
    LET ed1 == ed \/ c1.edit
        ed2 == ed1 \/ c2.edit
        text_t1 == request_site(s, t, ed1, c1)
        text_t2 == request_site(s, t + 1, ed2, c2)
        current_pattern == create_pattern(text_t1.value, text_t2.value)
        current_fingerprint == apply_pattern(current_pattern.value, text_t1.value)
        both == <<text_t1.value, text_t2.value>>
    IN  IF text_t1.raised # ""
        THEN Done(text_t1.raised, FALSE, rows, rows, <<>>, <<>>, 1, ed1)
        ELSE IF text_t2.raised # ""
        THEN Done(text_t2.raised, FALSE, rows, rows, <<>>, <<text_t1.value>>, 2, ed2)
        ELSE IF current_pattern.raised # ""
        THEN Done(current_pattern.raised, FALSE, rows, rows, <<>>, both, 2, ed2)
        ELSE IF current_fingerprint.raised # ""
        THEN Done(current_fingerprint.raised, FALSE, rows, rows, <<>>, both, 2, ed2)
        ELSE insert_and_return(rows, s, current_fingerprint.value, current_pattern.value,
                               default_timestamp, FALSE, <<>>, both, 2, ed2)

\* An update was detected: lines 175-191.
Hfc_suspect(rows, s, t, ed1, c2, latest_site_change, latest_pattern, current_text, candidate) ==
    LET ed2 == ed1 \/ c2.edit
        check_text == request_site(s, t + 1, ed2, c2)
        check_fingerprint == apply_pattern(latest_pattern, check_text.value)
        new_pattern == create_pattern(current_text, check_text.value)
        new_fingerprint == apply_pattern(new_pattern.value, current_text)
        latest == <<latest_site_change>>
        both == <<current_text, check_text.value>>
    IN  IF check_text.raised # ""
        THEN Done(check_text.raised, FALSE, rows, rows, latest, <<current_text>>, 2, ed2)
        ELSE IF check_fingerprint.raised # ""
        THEN Done(check_fingerprint.raised, FALSE, rows, rows, latest, both, 2, ed2)
        ELSE IF pattern_still_valid(check_fingerprint.value, candidate)
        THEN insert_and_return(rows, s, candidate, latest_pattern, default_timestamp,
                               update_detected_on_difference, latest, both, 2, ed2)
        ELSE IF new_pattern.raised # ""
        THEN Done(new_pattern.raised, FALSE, rows, rows, latest, both, 2, ed2)
        ELSE IF new_fingerprint.raised # ""
        THEN Done(new_fingerprint.raised, FALSE, rows, rows, latest, both, 2, ed2)
        ELSE insert_and_return(rows, s, new_fingerprint.value, new_pattern.value,
                               default_timestamp, update_detected_on_difference,
                               latest, both, 2, ed2)

HfcInvarianceCheckStrategy_change_check(rows, s, t, ed, c1, c2) ==
    LET found == get_latest_sitechange(rows, s)
        latest_site_change == found.value
        latest_fingerprint == latest_site_change.fingerprint
        latest_pattern == latest_site_change.pattern
        ed1 == ed \/ c1.edit
        current_text == request_site(s, t, ed1, c1)
        current_fingerprint == apply_pattern(latest_pattern, current_text.value)
        latest == <<latest_site_change>>
    IN  IF found.raised # "" THEN Hfc_bootstrap(rows, s, t, ed, c1, c2)
        ELSE IF current_text.raised # ""
        THEN Done(current_text.raised, FALSE, rows, rows, latest, <<>>, 1, ed1)
        ELSE IF current_fingerprint.raised # ""
        THEN Done(current_fingerprint.raised, FALSE, rows, rows, latest,
                  <<current_text.value>>, 1, ed1)
        ELSE IF nothing_changed(current_fingerprint.value, latest_fingerprint)
        THEN Done("", FALSE, rows, rows, latest, <<current_text.value>>, 1, ed1)
        ELSE Hfc_suspect(rows, s, t, ed1, c2, latest_site_change, latest_pattern,
                         current_text.value, current_fingerprint.value)

---------------------------------------------------------------------------
(* ChangeChecker *)

Naive == "NaiveCheckStrategy"
Hfc == "HfcInvarianceCheckStrategy"

ChangeChecker_init(arg) == IF arg = "None" THEN Hfc ELSE arg

check_site(rows, s, t, ed, c1, c2) ==
    IF change_check_strategy = Naive
    THEN NaiveCheckStrategy_change_check(rows, s, t, ed, c1, c2)
    ELSE HfcInvarianceCheckStrategy_change_check(rows, s, t, ed, c1, c2)

\* What a call leaves to look at: the site, which call on the site it was, when
\* it started and ended, how many rows the site had, whether the server
\* answered each of its requests, and what the call did.
Call(s, nth, t, rows, out, c1, c2) ==
    [url |-> s.url, site_id |-> s.id, nth |-> nth, started |-> t,
     ended |-> t + out.requests,
     answered |-> SubSeq(<<c1.ok, c2.ok>>, 1, out.requests),
     had |-> Len(SelectSeq(rows, LAMBDA r : r.site_id = s.id)),
     raised |-> out.raised, value |-> out.value, wrote |-> out.wrote,
     latest |-> out.latest, fetched |-> out.fetched, requests |-> out.requests]

NoCall == [url |-> "", site_id |-> 0, nth |-> 0, started |-> 0, ended |-> 0,
           answered |-> <<>>,
           had |-> 0, raised |-> "",
           value |-> FALSE, wrote |-> <<>>, latest |-> <<>>, fetched |-> <<>>,
           requests |-> 0]

Outcome(call) == IF call.raised # "" THEN call.raised
                 ELSE IF call.value THEN "True" ELSE "False"

msg_line(s) == "* " \o s.url

\* The test that lets every site into the message.
site_has_changed_always(update_detected) == TRUE

\* Line 250: if update_detected
site_has_changed(update_detected) == update_detected

\* The loop of check_all_sites from site st.i on: every way it can end.  An
\* exception of check_site leaves the loop and the method.
RECURSIVE check_all_sites_loop(_, _)
check_all_sites_loop(sites, st) ==
    IF st.i > Len(sites) THEN {st}
    ELSE UNION {
        LET s == sites[st.i]
            out == check_site(st.site_change, s, st.clock, st.edited, c1, c2)
            next == [i |-> st.i + 1, site_change |-> out.site_change,
                     clock |-> st.clock + out.requests, edited |-> out.edited,
                     msg_lines |-> IF out.raised = "" /\ site_has_changed(out.value)
                                   THEN Append(st.msg_lines, msg_line(s))
                                   ELSE st.msg_lines,
                     calls |-> Append(st.calls,
                                      Call(s, st.nth[s.url] + 1, st.clock,
                                           st.site_change, out, c1, c2)),
                     nth |-> [st.nth EXCEPT ![s.url] = @ + 1],
                     raised |-> out.raised]
        IN  IF out.raised # "" THEN {next} ELSE check_all_sites_loop(sites, next)
        : c1 \in Served(sites[st.i].url), c2 \in Served(sites[st.i].url) }

\* check_all_sites as a whole: the loop, then send_email if there are lines.
check_all_sites(sites, rows, t, ed, nth) ==
    { [site |-> sites, before |-> rows, after |-> fin.site_change,
       clock |-> fin.clock, edited |-> fin.edited, calls |-> fin.calls,
       nth |-> fin.nth,
       msg_lines |-> fin.msg_lines, raised |-> fin.raised,
       sent |-> IF fin.raised = "" /\ Len(fin.msg_lines) > 0
                THEN <<join(NL, fin.msg_lines)>> ELSE <<>>]
      : fin \in check_all_sites_loop(get_all_sites(sites),
                    [i |-> 1, site_change |-> rows, clock |-> t, edited |-> ed,
                     msg_lines |-> <<>>, calls |-> <<>>, nth |-> nth,
                     raised |-> ""]) }

---------------------------------------------------------------------------
(* Calls of the functions on texts *)

\* The characters of the texts: a letter, the line break, the tag opener.
Chars == {"a", NL, LT}

\* Every text of n characters.
RECURSIVE TextsOfLen(_)
TextsOfLen(n) ==
    IF n = 0 THEN {<<>>}
    ELSE {<<ch>> \o rest : ch \in Chars, rest \in TextsOfLen(n - 1)}

Texts == UNION {TextsOfLen(n) : n \in 0..MaxLen}

\* sorted(indices) for a set of numbers.
RECURSIVE sorted(_)
sorted(indices) ==
    IF indices = {} THEN <<>>
    ELSE LET least == CHOOSE i \in indices : \A j \in indices : i <= j
         IN  <<least>> \o sorted(indices \ {least})

\* ','.join([str(x) for x in pattern]) for an ascending list of indices.
pattern_str(pattern) ==
    join(<<COMMA>>, [k \in 1..Len(pattern) |-> str(pattern[k])])

\* A call: the function, its arguments besides the given text, its result.
Returned(fn, site_t2_text, pattern, result) ==
    [fn |-> fn, site_t2_text |-> site_t2_text, pattern |-> pattern, result |-> result]

NoReturn == Returned("", <<>>, <<>>, Return(<<>>))

---------------------------------------------------------------------------
(* The state machine *)

Init ==
    /\ site = <<>>
    /\ site_change = <<>>
    /\ strategy_arg \in {"None", Naive, Hfc}
    /\ change_check_strategy = ChangeChecker_init(strategy_arg)
    /\ default_timestamp = 0
    /\ tie_break \in {"oldest", "newest"}
    /\ clock = 1
    /\ edited = FALSE
    /\ last = NoCall
    /\ calls = [u \in URLs |-> 0]
    /\ runs = <<>>
    /\ given = <<>>
    /\ returned = NoReturn

\* db.insert_site(url)
InsertSite(url) ==
    /\ max_id(site) < MaxSiteId
    /\ LET ins == insert_site(site, url)
       IN  /\ ins.raised = ""
           /\ site' = ins.value
    /\ calls' = [calls EXCEPT ![url] = 0]
    /\ last' = NoCall
    /\ runs' = <<>>
    /\ UNCHANGED <<site_change, change_check_strategy, strategy_arg, default_timestamp,
                   tie_break, clock, edited, given, returned>>

\* db.remove_site(url)
RemoveSite(url) ==
    /\ get_site(site, url).raised = ""
    /\ LET db == remove_site(site, site_change, url)
       IN  /\ site' = db.site
           /\ site_change' = db.site_change
    /\ calls' = [calls EXCEPT ![url] = 0]
    /\ last' = NoCall
    /\ runs' = <<>>
    /\ UNCHANGED <<change_check_strategy, strategy_arg, default_timestamp,
                   tie_break, clock, edited, given, returned>>

\* checker.check_site(site)
CheckSite(s) ==
    \E c1 \in Served(s.url), c2 \in Served(s.url) :
        LET out == check_site(site_change, s, clock, edited, c1, c2)
            call == Call(s, calls[s.url] + 1, clock, site_change, out, c1, c2)
        IN  /\ call.ended <= MaxClock
            /\ site_change' = out.site_change
            /\ clock' = call.ended
            /\ edited' = out.edited
            /\ last' = call
            /\ calls' = [calls EXCEPT ![s.url] = call.nth]
            /\ runs' = <<>>
            /\ UNCHANGED <<site, change_check_strategy, strategy_arg,
                           default_timestamp, tie_break, given, returned>>

\* checker.check_all_sites()
CheckAllSites ==
    \E run \in check_all_sites(site, site_change, clock, edited, calls) :
        /\ run.clock <= MaxClock
        /\ site_change' = run.after
        /\ clock' = run.clock
        /\ edited' = run.edited
        /\ last' = IF run.calls = <<>> THEN last ELSE run.calls[Len(run.calls)]
        /\ calls' = run.nth
        /\ runs' = IF Len(runs) < 2 THEN Append(runs, run) ELSE <<runs[2], run>>
        /\ UNCHANGED <<site, change_check_strategy, strategy_arg,
                       default_timestamp, tie_break, given, returned>>

\* A new process on the same database file: brang.database is imported again,
\* which evaluates the default of insert_site_change_entry's timestamp.
NewProcess ==
    /\ clock < MaxClock
    /\ default_timestamp' = clock
    /\ clock' = clock + 1
    /\ UNCHANGED <<site, site_change, change_check_strategy, strategy_arg,
                   tie_break, edited, last, calls, runs, given, returned>>

\* The pages of the tests: one that never changes, one that always does.
Next ==
    \/ \E url \in {url_fix, url_changing} : InsertSite(url)
    \/ \E url \in {url_fix, url_changing} : RemoveSite(url)
    \/ \E k \in 1..Len(site) : CheckSite(site[k])
    \/ CheckAllSites
    \/ NewProcess

Spec == Init /\ [][Next]_vars

\* The page of a timestamp line and a body.
NextVolatile ==
    \/ InsertSite(url_volatile)
    \/ RemoveSite(url_volatile)
    \/ \E k \in 1..Len(site) : CheckSite(site[k])
    \/ CheckAllSites
    \/ NewProcess

SpecVolatile == Init /\ [][NextVolatile]_vars

\* The page that may serve anything.
NextAny ==
    \/ InsertSite(url_any)
    \/ RemoveSite(url_any)
    \/ \E k \in 1..Len(site) : CheckSite(site[k])
    \/ CheckAllSites
    \/ NewProcess

SpecAny == Init /\ [][NextAny]_vars

\* The ever-changing page next to one that changes with every second tick and
\* whose server may fail, checked by one process.
NextFlaky ==
    \/ \E url \in {url_changing, url_flaky} : InsertSite(url)
    \/ \E url \in {url_changing, url_flaky} : RemoveSite(url)
    \/ \E k \in 1..Len(site) : CheckSite(site[k])
    \/ CheckAllSites

SpecFlaky == Init /\ [][NextFlaky]_vars

\* The functions on texts, called on any text of up to MaxLen characters.
InitText ==
    /\ site = <<>>
    /\ site_change = <<>>
    /\ strategy_arg = "None"
    /\ change_check_strategy = ChangeChecker_init(strategy_arg)
    /\ default_timestamp = 0
    /\ tie_break = "oldest"
    /\ clock = 1
    /\ edited = FALSE
    /\ last = NoCall
    /\ calls = [u \in URLs |-> 0]
    /\ runs = <<>>
    /\ given \in Texts
    /\ returned = NoReturn

machine_vars == <<site, site_change, change_check_strategy, strategy_arg,
                  default_timestamp, tie_break, clock, edited, last, calls, runs>>

\* create_fingerprint(text=given)
CreateFingerprint ==
    /\ returned' = Returned("create_fingerprint", <<>>, <<>>,
                            Return(create_fingerprint(given)))
    /\ UNCHANGED <<machine_vars, given>>

\* HfcInvarianceCheckStrategy.create_pattern(given, site_t2_text)
CreatePattern ==
    /\ \E site_t2_text \in Texts :
           returned' = Returned("create_pattern", site_t2_text, <<>>,
                                create_pattern(given, site_t2_text))
    /\ UNCHANGED <<machine_vars, given>>

\* HfcInvarianceCheckStrategy.apply_pattern(pattern, given), the pattern any
\* ascending list of distinct indices.
ApplyPattern ==
    /\ \E indices \in SUBSET (0..MaxLen) :
           LET pattern == pattern_str(sorted(indices))
           IN  returned' = Returned("apply_pattern", <<>>, pattern,
                                    apply_pattern(pattern, given))
    /\ UNCHANGED <<machine_vars, given>>

\* apply_pattern(pattern, given) and apply_pattern(pattern, site_t2_text) for
\* the pattern that create_pattern(given, site_t2_text) returned.
ApplyLearnedPattern ==
    /\ returned.fn = "create_pattern"
    /\ returned.result.raised = ""
    /\ LET pattern == returned.result.value
       IN  returned' = Returned("apply_learned_pattern", returned.site_t2_text, pattern,
                                Return(<<apply_pattern(pattern, given),
                                         apply_pattern(pattern, returned.site_t2_text)>>))
    /\ UNCHANGED <<machine_vars, given>>

NextText ==
    \/ CreateFingerprint
    \/ CreatePattern
    \/ ApplyPattern
    \/ ApplyLearnedPattern

SpecText == InitText /\ [][NextText]_vars

---------------------------------------------------------------------------
(* What the claims speak about *)

\* The calls the state still shows: the latest one and those of the runs kept.
ObservedCalls ==
    {last} \cup UNION { {runs[i].calls[j] : j \in 1..Len(runs[i].calls)}
                        : i \in 1..Len(runs) }

\* The SiteChange rows of the site registered under url.
rows_of(url) ==
    LET found == get_site(site, url)
    IN  IF found.raised # "" THEN <<>>
        ELSE SelectSeq(site_change, LAMBDA r : r.site_id = found.value.id)

---------------------------------------------------------------------------
(* C1 *)

\* C1: with NaiveCheckStrategy, every change_check call on the page that never
\* changes returned False, and once the site was checked at least once it has
\* exactly one SiteChange row.
C1_NaiveStaticPage ==
    change_check_strategy = Naive =>
        /\ \A c \in ObservedCalls :
               c.url = url_fix => c.raised = "" /\ c.value = FALSE
        /\ calls[url_fix] >= 1 => Len(rows_of(url_fix)) = 1

C1_Witness ==
    /\ change_check_strategy = Naive
    /\ last.url = url_fix
    /\ last.nth >= 2
    /\ last.value = FALSE
    /\ Len(rows_of(url_fix)) = 1

---------------------------------------------------------------------------
(* C2 *)

\* C2 as stated: with NaiveCheckStrategy, every change_check call on the page
\* that differs on every fetch returns True and appends one row.
C2_EveryCallReportsChange ==
    change_check_strategy = Naive =>
        \A c \in ObservedCalls :
            c.url = url_changing =>
                c.raised = "" /\ c.value = TRUE /\ Len(c.wrote) = 1

\* C2 amended: with NaiveCheckStrategy, every change_check call on the page
\* that differs on every fetch appends one row of that site; the first call on
\* the site returns False and every later call returns True.
C2_EveryLaterCallReportsChange ==
    change_check_strategy = Naive =>
        /\ \A c \in ObservedCalls :
               c.url = url_changing =>
                   /\ c.raised = ""
                   /\ c.value = (c.nth > 1)
                   /\ Len(c.wrote) = 1
                   /\ c.wrote[1].site_id = c.site_id
        /\ Len(rows_of(url_changing)) = calls[url_changing]

C2_Witness ==
    /\ change_check_strategy = Naive
    /\ last.url = url_changing
    /\ last.nth >= 3
    /\ last.value = TRUE
    /\ Len(rows_of(url_changing)) = 3

---------------------------------------------------------------------------
(* The paths of HfcInvarianceCheckStrategy.change_check, read off a call *)

\* The call found no SiteChange of the site and fetched both samples.
Bootstrapped(c) == c.url # "" /\ c.latest = <<>> /\ Len(c.fetched) = 2

\* The call found a SiteChange of the site and fetched a sample.
Sampled(c) == c.url # "" /\ Len(c.latest) = 1 /\ Len(c.fetched) >= 1

\* The sample's fingerprint under the stored pattern.
candidate(c) == apply_pattern(c.latest[1].pattern, c.fetched[1])

\* The confirmation sample's fingerprint under the stored pattern.
confirmation(c) == apply_pattern(c.latest[1].pattern, c.fetched[2])

\* The sample's fingerprint is the stored one.
Steady(c) ==
    /\ Sampled(c)
    /\ candidate(c) = Return(c.latest[1].fingerprint)

\* The sample's fingerprint differs from the stored one, and a confirmation
\* sample was fetched that has a fingerprint under the stored pattern.
Suspect(c) ==
    /\ Sampled(c)
    /\ candidate(c).raised = ""
    /\ candidate(c).value # c.latest[1].fingerprint
    /\ Len(c.fetched) = 2
    /\ confirmation(c).raised = ""

Confirmed(c) == Suspect(c) /\ confirmation(c) = candidate(c)

PatternStale(c) == Suspect(c) /\ confirmation(c) # candidate(c)

---------------------------------------------------------------------------
(* C3 *)

\* C3: a HfcInvarianceCheckStrategy.change_check call on a site with no
\* SiteChange that fetched samples s1 and s2 wrote exactly one row, whose
\* pattern is create_pattern(s1, s2) and whose fingerprint is
\* apply_pattern(that pattern, s1), and returned False.
C3_BootstrapWritesLearnedRow ==
    change_check_strategy = Hfc =>
        \A c \in ObservedCalls :
            Bootstrapped(c) =>
                LET pattern == create_pattern(c.fetched[1], c.fetched[2])
                IN  /\ c.raised = ""
                    /\ c.value = FALSE
                    /\ Len(c.wrote) = 1
                    /\ c.wrote[1].pattern = pattern.value
                    /\ c.wrote[1].fingerprint
                           = apply_pattern(pattern.value, c.fetched[1]).value

---------------------------------------------------------------------------
(* C4 *)

\* The call returned False, wrote no row and made one request only.
C4_NoChangeNothingWritten ==
    change_check_strategy = Hfc =>
        \A c \in ObservedCalls :
            Steady(c) =>
                /\ c.raised = ""
                /\ c.value = FALSE
                /\ c.wrote = <<>>
                /\ c.requests = 1

\* The next call on the site after such a call reads the same stored row.
C4_NextCheckFromSameRow ==
    (/\ change_check_strategy = Hfc
     /\ Steady(last)
     /\ last'.url = last.url
     /\ last'.site_id = last.site_id
     /\ last'.nth = last.nth + 1)
        => last'.latest = last.latest

\* C4: a HfcInvarianceCheckStrategy.change_check call whose sample has the
\* stored fingerprint under the stored pattern returns False, writes no row and
\* makes no second request; the next check of the site starts from the same
\* stored row.
C4_SteadyCheckLeavesStoreAlone ==
    /\ []C4_NoChangeNothingWritten
    /\ [][C4_NextCheckFromSameRow]_vars

C4_Witness ==
    /\ change_check_strategy = Hfc
    /\ Steady(last)
    /\ last.nth >= 3
    /\ last.had >= 2
    /\ last.value = FALSE

---------------------------------------------------------------------------
(* C5 *)

\* C5: a HfcInvarianceCheckStrategy.change_check call whose candidate differs
\* from the stored fingerprint and whose confirmation sample has the
\* candidate's fingerprint writes exactly one row, with the candidate, the
\* stored pattern and the time of this check, and returns True.
C5_ConfirmedChangeStampedNow ==
    change_check_strategy = Hfc =>
        \A c \in ObservedCalls :
            Confirmed(c) =>
                /\ c.raised = ""
                /\ c.value = TRUE
                /\ Len(c.wrote) = 1
                /\ c.wrote[1].fingerprint = candidate(c).value
                /\ c.wrote[1].pattern = c.latest[1].pattern
                /\ c.wrote[1].check_timestamp >= c.started
                /\ c.wrote[1].check_timestamp <= c.ended

---------------------------------------------------------------------------
(* C6 *)

\* C6: a HfcInvarianceCheckStrategy.change_check call whose candidate differs
\* from the stored fingerprint and whose confirmation sample has another
\* fingerprint than the candidate writes exactly one row, with the pattern
\* create_pattern(sample, confirmation sample) and the fingerprint
\* apply_pattern(that pattern, sample), and returns True.
C6_StalePatternRelearned ==
    change_check_strategy = Hfc =>
        \A c \in ObservedCalls :
            PatternStale(c) =>
                LET pattern == create_pattern(c.fetched[1], c.fetched[2])
                IN  /\ c.raised = ""
                    /\ c.value = TRUE
                    /\ Len(c.wrote) = 1
                    /\ c.wrote[1].pattern = pattern.value
                    /\ c.wrote[1].fingerprint
                           = apply_pattern(pattern.value, c.fetched[1]).value

---------------------------------------------------------------------------
(* C7 *)

\* The entries of a stored pattern.
entries(pattern) ==
    {split(pattern, COMMA)[k] : k \in 1..Len(split(pattern, COMMA))} \ {<<>>}

\* The timestamp is the first line of the volatile page.
timestamp_line == str(0)

\* C7: with HfcInvarianceCheckStrategy, as long as the volatile page varies in
\* its timestamp line only, the first check of the site stores a pattern that
\* holds the timestamp line's index and returns False, and every later check
\* returns False and writes no row.
C7_TimestampAbsorbed ==
    (change_check_strategy = Hfc /\ ~edited) =>
        /\ \A c \in ObservedCalls :
               c.url = url_volatile =>
                   /\ c.raised = ""
                   /\ c.value = FALSE
                   /\ IF c.had = 0
                      THEN /\ Len(c.wrote) = 1
                           /\ timestamp_line \in entries(c.wrote[1].pattern)
                      ELSE c.wrote = <<>>
        /\ calls[url_volatile] >= 1 => Len(rows_of(url_volatile)) = 1

C7_Witness ==
    /\ change_check_strategy = Hfc
    /\ ~edited
    /\ last.url = url_volatile
    /\ last.nth >= 3
    /\ last.value = FALSE
    /\ Len(rows_of(url_volatile)) = 1
    /\ timestamp_line \in entries(rows_of(url_volatile)[1].pattern)

---------------------------------------------------------------------------
(* C8 *)

\* The call is the first to sample the volatile page with its added paragraph:
\* the site's only row is the one learned on the original body.
FirstSampleOfAddedParagraph(c) ==
    /\ c.url = url_volatile
    /\ Sampled(c)
    /\ c.had = 1
    /\ timestamp_line \in entries(c.latest[1].pattern)
    /\ Return(c.latest[1].fingerprint)
           = apply_pattern(c.latest[1].pattern, volatile_page(c.started, FALSE))
    /\ c.fetched[1] = volatile_page(c.started, TRUE)

\* C8: with HfcInvarianceCheckStrategy, the check that first samples the
\* volatile page with its added paragraph returns True and writes one row with
\* the stored pattern and the fingerprint of the new sample under that pattern.
C8_AddedParagraphReported ==
    change_check_strategy = Hfc =>
        \A c \in ObservedCalls :
            FirstSampleOfAddedParagraph(c) =>
                /\ c.raised = ""
                /\ c.value = TRUE
                /\ Len(c.wrote) = 1
                /\ c.wrote[1].pattern = c.latest[1].pattern
                /\ c.wrote[1].fingerprint = candidate(c).value

C8_Witness ==
    /\ change_check_strategy = Hfc
    /\ FirstSampleOfAddedParagraph(last)
    /\ last.value = TRUE
    /\ Len(last.fetched) = 2
    /\ last.fetched[2] # last.fetched[1]
    /\ Len(rows_of(url_volatile)) = 2

---------------------------------------------------------------------------
(* C9, C10 *)

urls_of(sites) == {sites[k].url : k \in 1..Len(sites)}

\* The oldest run kept went over the never-changing and the ever-changing site
\* with no SiteChange row in the table.
FirstRunOverBothPages ==
    /\ Len(runs) >= 1
    /\ Len(runs[1].site) = 2
    /\ urls_of(runs[1].site) = {url_fix, url_changing}
    /\ runs[1].before = <<>>

\* And the run after it went over the same sites and the rows the first left.
SecondRunOverBothPages ==
    /\ FirstRunOverBothPages
    /\ Len(runs) = 2
    /\ runs[2].site = runs[1].site
    /\ runs[2].before = runs[1].after

\* C9: check_all_sites over a never-changing and an ever-changing site: the
\* first run reports no url and sends no e-mail; the second run reports the
\* ever-changing site's url only and sends one e-mail with that line.
C9_SecondRunReportsChangingPage ==
    /\ FirstRunOverBothPages =>
           /\ runs[1].raised = ""
           /\ runs[1].msg_lines = <<>>
           /\ runs[1].sent = <<>>
    /\ SecondRunOverBothPages =>
           /\ runs[2].raised = ""
           /\ runs[2].msg_lines = <<"* " \o url_changing>>
           /\ runs[2].sent = <<"* " \o url_changing>>

\* C10: with the default strategy the ever-changing site has one row per check,
\* the never-changing site keeps one row, and two runs over both sites leave 2
\* rows after the first and 3 after the second.
C10_DefaultStrategyRowCounts ==
    strategy_arg = "None" =>
        /\ calls[url_changing] >= 1 =>
               Len(rows_of(url_changing)) = calls[url_changing]
        /\ calls[url_fix] >= 1 => Len(rows_of(url_fix)) = 1
        /\ FirstRunOverBothPages => Len(runs[1].after) = 2
        /\ SecondRunOverBothPages => Len(runs[2].after) = 3

---------------------------------------------------------------------------
(* C11 *)

\* The lines of the calls of a run that returned True, in the order of the calls.
RECURSIVE lines_of_changed(_)
lines_of_changed(cs) ==
    IF cs = <<>> THEN <<>>
    ELSE (IF Head(cs).raised = "" /\ Head(cs).value
          THEN <<"* " \o Head(cs).url>> ELSE <<>>)
         \o lines_of_changed(Tail(cs))

\* C11: in every check_all_sites run, every site returned by get_all_sites is
\* checked, whether or not the check of another site failed, and the sites
\* whose check returned True are reported.
C11_FailureDoesNotAbortRun ==
    \A i \in 1..Len(runs) :
        /\ Len(runs[i].calls) = Len(runs[i].site)
        /\ \A k \in 1..Len(runs[i].calls) : runs[i].calls[k].url = runs[i].site[k].url
        /\ runs[i].msg_lines = lines_of_changed(runs[i].calls)
        /\ runs[i].msg_lines # <<>> => runs[i].sent = <<join(NL, runs[i].msg_lines)>>

---------------------------------------------------------------------------
(* C12 *)

\* The call gave its two samples to create_pattern: while bootstrapping, or to
\* relearn a pattern that the confirmation sample showed stale.
LearnedFrom(c) == Bootstrapped(c) \/ PatternStale(c)

\* C12: a HfcInvarianceCheckStrategy.change_check call that gives create_pattern
\* two samples of different transformed-line counts raises no IndexError.
C12_UnequalLineCountsNoIndexFault ==
    change_check_strategy = Hfc =>
        \A c \in ObservedCalls :
            (/\ LearnedFrom(c)
             /\ Len(transform(c.fetched[1])) # Len(transform(c.fetched[2])))
                => c.raised # "IndexError"

---------------------------------------------------------------------------
(* C13 *)

\* The pattern has an entry that is no line position of the text.
OutOfRange(pattern, text) ==
    \E entry \in entries(pattern) : int(entry) >= Len(transform(text))

\* C13: a HfcInvarianceCheckStrategy.change_check call that applies a stored
\* pattern to a fetched document of which some entry of the pattern is no line
\* position raises no IndexError.
C13_StoredIndexOutOfRangeNoFault ==
    change_check_strategy = Hfc =>
        \A c \in ObservedCalls :
            (/\ Sampled(c)
             /\ \E k \in 1..Len(c.fetched) :
                    OutOfRange(c.latest[1].pattern, c.fetched[k]))
                => c.raised # "IndexError"

---------------------------------------------------------------------------
(* C14 *)

\* C14: every change_check call, of either strategy and on any path, wrote one
\* new SiteChange row or none.
C14_AtMostOneRowPerCall ==
    \A c \in ObservedCalls : Len(c.wrote) <= 1

C14_Witness ==
    /\ change_check_strategy = Hfc
    /\ Suspect(last)
    /\ last.raised = ""
    /\ last.requests = 2
    /\ last.had >= 2
    /\ Len(last.wrote) = 1
    /\ Len(rows_of(last.url)) = last.had + 1

---------------------------------------------------------------------------
(* C15 *)

\* C15: a check_all_sites run calls send_email at most once, and only if the
\* check of at least one site returned True; the message is then the lines of
\* the sites whose check returned True, one each, in the order of
\* get_all_sites, and no other line.
C15_OneMessageOfChangedSites ==
    \A i \in 1..Len(runs) :
        /\ Len(runs[i].sent) <= 1
        /\ runs[i].sent # <<>> =>
               /\ \E k \in 1..Len(runs[i].calls) :
                      runs[i].calls[k].raised = "" /\ runs[i].calls[k].value
               /\ Len(runs[i].calls) = Len(runs[i].site)
               /\ \A k \in 1..Len(runs[i].site) :
                      runs[i].calls[k].url = runs[i].site[k].url
               /\ runs[i].sent[1] = join(NL, lines_of_changed(runs[i].calls))

\* A run over two sites that reported both, and one that reported the second
\* of two only.
C15_Witness ==
    /\ Len(runs) = 2
    /\ Len(runs[1].site) = 2
    /\ runs[2].site = runs[1].site
    /\ runs[1].sent = <<"* " \o runs[1].site[2].url>>
    /\ runs[2].sent = <<("* " \o runs[2].site[1].url) \o NL \o ("* " \o runs[2].site[2].url)>>

---------------------------------------------------------------------------
(* C16 *)

\* The indices at which two lists of equal length differ, counted from 0.
differences(t_list_1, t_list_2) ==
    {i \in 0..(Len(t_list_1) - 1) : t_list_1[i + 1] # t_list_2[i + 1]}

\* C16: for two texts whose transforms have the same length, create_pattern
\* returns the ascending list of exactly the indices at which the transforms
\* differ.
C16_PatternIsTheDifferingIndices ==
    (/\ returned.fn = "create_pattern"
     /\ Len(transform(given)) = Len(transform(returned.site_t2_text)))
        => returned.result
               = Return(pattern_str(sorted(differences(
                            transform(given), transform(returned.site_t2_text)))))

\* Two texts of three lines each that differ in the first and the last.
C16_Witness ==
    /\ returned.fn = "create_pattern"
    /\ Len(transform(given)) = 3
    /\ Len(transform(returned.site_t2_text)) = 3
    /\ returned.result = Return(<<"0", COMMA, "2">>)

---------------------------------------------------------------------------
(* C17 *)

\* The indices of a pattern built by pattern_str.
indices_of(pattern) == {int(entry) : entry \in entries(pattern)}

\* The lines of t_list from position i (counted from 0) on whose position is
\* not among the indices, in order.
RECURSIVE kept(_, _, _)
kept(t_list, indices, i) ==
    IF i >= Len(t_list) THEN <<>>
    ELSE (IF i \in indices THEN <<>> ELSE <<t_list[i + 1]>>)
         \o kept(t_list, indices, i + 1)

\* C17: for an ascending pattern of distinct indices that are line positions
\* of transform(T), apply_pattern(pattern, T) is the fingerprint of the lines
\* of transform(T) whose original position is not in the pattern, in order.
C17_RemovesTheOriginalPositions ==
    (/\ returned.fn = "apply_pattern"
     /\ ~OutOfRange(returned.pattern, given))
        => returned.result
               = Return(create_fingerprint(join(<<>>,
                            kept(transform(given), indices_of(returned.pattern), 0))))

\* A text of three different lines, of which the first two are removed.
C17_Witness ==
    /\ returned.fn = "apply_pattern"
    /\ given = <<"a", NL, LT>>
    /\ returned.pattern = <<"0", COMMA, "1">>
    /\ returned.result = Return(create_fingerprint(<<LT>>))

---------------------------------------------------------------------------
(* C18 *)

\* C18: for every text T, apply_pattern with the empty pattern returns
\* create_fingerprint(T).
C18_EmptyPatternIsFingerprint ==
    (returned.fn = "apply_pattern" /\ returned.pattern = <<>>)
        => returned.result = Return(create_fingerprint(given))

---------------------------------------------------------------------------
(* C19 *)

ids_of(sites) == {sites[k].id : k \in 1..Len(sites)}

\* Every SiteChange row is a row of a site that exists.
C19_NoRowWithoutSite ==
    \A k \in 1..Len(site_change) : site_change[k].site_id \in ids_of(site)

\* A step that removes a site removes the rows of that site and no other.
C19_RemoveTakesOwnRowsOnly ==
    Len(site') < Len(site) =>
        /\ Cardinality(ids_of(site) \ ids_of(site')) = 1
        /\ site_change' = SelectSeq(site_change, LAMBDA r : r.site_id \in ids_of(site'))

\* C19: removing a Site removes every SiteChange row of that site and leaves
\* the rows of all other sites as they are; no SiteChange row is ever a row of
\* a site that does not exist.
C19_RemoveCascades ==
    /\ []C19_NoRowWithoutSite
    /\ [][C19_RemoveTakesOwnRowsOnly]_vars

\* The first site was removed with its row (the oldest row is gone), and the
\* rows of the second site are still there.
C19_Witness ==
    /\ Len(site) = 1
    /\ site[1].id = 2
    /\ Len(site_change) >= 2
    /\ site_change[1].id > 1
    /\ \A k \in 1..Len(site_change) : site_change[k].site_id = 2

---------------------------------------------------------------------------
(* C20 *)

\* C20: after a change_check call that wrote a row, get_latest_sitechange of
\* the site returns that row; the row's check_timestamp is the time of the
\* call and greater than that of every earlier row of the site.
C20_LatestIsTheRowJustWritten ==
    (last.url # "" /\ Len(last.wrote) = 1) =>
        LET written == last.wrote[1]
            s == Site(last.site_id, last.url)
        IN  /\ get_latest_sitechange(site_change, s) = Return(written)
            /\ written.check_timestamp >= last.started
            /\ written.check_timestamp <= last.ended
            /\ \A k \in 1..Len(site_change) :
                   (site_change[k].site_id = s.id /\ site_change[k].id # written.id)
                       => site_change[k].check_timestamp < written.check_timestamp

---------------------------------------------------------------------------
(* C21 *)

\* C21: no change_check call tries to insert a SiteChange row whose site_id,
\* fingerprint and check_timestamp are those of an existing row.
C21_UniqueConstraintNeverViolated ==
    \A c \in ObservedCalls : c.raised # "IntegrityError"

---------------------------------------------------------------------------
(* C22 *)

\* The rows the site of the latest call had when the call started.
rows_before(c) ==
    SelectSeq(rows_of(c.url), LAMBDA r : \A k \in 1..Len(c.wrote) : r # c.wrote[k])

\* The added paragraph was persisted before the call: a row of the site
\* excludes the timestamp line and holds the fingerprint of the page with the
\* paragraph.
ChangePersistedBefore(c) ==
    /\ c.url = url_volatile
    /\ c.fetched # <<>>
    /\ \E k \in 1..Len(rows_before(c)) :
           LET r == rows_before(c)[k]
           IN  /\ timestamp_line \in entries(r.pattern)
               /\ apply_pattern(r.pattern, volatile_page(c.started, TRUE))
                      = Return(r.fingerprint)

\* C22: once the changed content of the volatile page was persisted by a
\* HfcInvarianceCheckStrategy check, every later check of the site returns
\* False and writes nothing.
C22_PersistedChangeNotReportedAgain ==
    (change_check_strategy = Hfc /\ ChangePersistedBefore(last)) =>
        /\ last.raised = ""
        /\ last.value = FALSE
        /\ last.wrote = <<>>

---------------------------------------------------------------------------
(* C23 *)

\* Every row a change_check call wrote is a row of the site it checked.
C23_WroteOwnSiteOnly ==
    \A c \in ObservedCalls :
        \A k \in 1..Len(c.wrote) : c.wrote[k].site_id = c.site_id

\* A step in which change_check was called.
Checked == \E url \in URLs : calls'[url] > calls[url]

\* Such a step leaves the Site rows and the SiteChange rows there were as they
\* are, and the rows it adds are rows of sites it checked.
C23_ChecksOnlyAppend ==
    Checked =>
        /\ site' = site
        /\ Len(site_change') >= Len(site_change)
        /\ SubSeq(site_change', 1, Len(site_change)) = site_change
        /\ \A k \in (Len(site_change) + 1)..Len(site_change') :
               \E url \in URLs :
                   /\ calls'[url] > calls[url]
                   /\ get_site(site, url) = Return(Site(site_change'[k].site_id, url))

\* C23: a change_check call on a site only appends rows of that site; it
\* changes and deletes no SiteChange row there was, of this or another site,
\* and changes no Site row.
C23_CheckTouchesOwnRowsOnly ==
    /\ []C23_WroteOwnSiteOnly
    /\ [][C23_ChecksOnlyAppend]_vars

\* A check of the second site wrote a row while both sites had rows.
C23_Witness ==
    /\ Len(site) = 2
    /\ last.site_id = site[2].id
    /\ last.had >= 1
    /\ Len(last.wrote) = 1
    /\ Len(rows_of(site[1].url)) >= 1
    /\ Len(rows_of(site[2].url)) = last.had + 1

---------------------------------------------------------------------------
(* C24 *)

\* The server failed on a request of the call.
FetchFailed(c) == \E k \in 1..Len(c.answered) : ~c.answered[k]

\* A call with a failed fetch raised RequestError and wrote no row.
C24_FailedFetchRaises ==
    \A c \in ObservedCalls :
        FetchFailed(c) => c.raised = "RequestError" /\ c.wrote = <<>>

\* A check_site call with a failed fetch leaves both tables as they were.
C24_FailedCheckLeavesStore ==
    (Checked /\ runs' = <<>> /\ FetchFailed(last')) =>
        site_change' = site_change /\ site' = site

\* C24: a change_check call any of whose fetches fails (the first sample, the
\* second sample of the bootstrap or the confirmation sample) ends with
\* RequestError and has written no SiteChange row; the store is as it was.
C24_FailedFetchWritesNothing ==
    /\ []C24_FailedFetchRaises
    /\ [][C24_FailedCheckLeavesStore]_vars

\* The confirmation sample failed: the call found a row, its first sample
\* differed from it, and the server failed on the second request.
C24_Witness ==
    /\ change_check_strategy = Hfc
    /\ Len(last.latest) = 1
    /\ last.answered = <<TRUE, FALSE>>
    /\ Len(last.fetched) = 1
    /\ candidate(last).value # last.latest[1].fingerprint
    /\ last.raised = "RequestError"
    /\ Len(rows_of(last.url)) = last.had

---------------------------------------------------------------------------
(* C25 *)

\* C25: for two texts whose transforms have the same length, the pattern that
\* create_pattern learned from them gives both the same fingerprint under
\* apply_pattern.
C25_LearnedPatternEqualisesSamples ==
    (/\ returned.fn = "apply_learned_pattern"
     /\ Len(transform(given)) = Len(transform(returned.site_t2_text)))
        => /\ returned.result.value[1].raised = ""
           /\ returned.result.value[2] = returned.result.value[1]

\* Two texts of three lines that differ in the first and the last.
C25_Witness ==
    /\ returned.fn = "apply_learned_pattern"
    /\ Len(transform(given)) = 3
    /\ Len(transform(returned.site_t2_text)) = 3
    /\ returned.pattern = <<"0", COMMA, "2">>
    /\ returned.result.value[1].raised = ""
    /\ returned.result.value[2] = returned.result.value[1]

---------------------------------------------------------------------------
(* C26 *)

\* The entry is the decimal numeral of a non-negative integer.
IsIndex(entry) ==
    /\ entry # <<>>
    /\ \A k \in 1..Len(entry) : \E d \in 1..10 : Digits[d] = entry[k]
    /\ str(int(entry)) = entry

\* The pattern is the empty string or a comma-separated list of strictly
\* ascending non-negative integers.
WellFormed(pattern) ==
    \/ pattern = <<>>
    \/ LET p == split(pattern, COMMA)
       IN  /\ \A k \in 1..Len(p) : IsIndex(p[k])
           /\ \A k \in 1..(Len(p) - 1) : int(p[k]) < int(p[k + 1])

\* Every row of the table has a well-formed pattern.
C26_RowsWellFormed ==
    \A k \in 1..Len(site_change) : WellFormed(site_change[k].pattern)

\* The row a call wrote has its indices within the lines of the sample its
\* fingerprint was computed from, the first the call fetched.
C26_WrittenWithinSample ==
    \A c \in ObservedCalls :
        \A k \in 1..Len(c.wrote) :
            /\ WellFormed(c.wrote[k].pattern)
            /\ ~OutOfRange(c.wrote[k].pattern, c.fetched[1])

\* C26: with HfcInvarianceCheckStrategy, the pattern of every SiteChange row is
\* the empty string or a comma-separated list of strictly ascending
\* non-negative integers, each smaller than the transformed-line count of the
\* sample the row's fingerprint was computed from.
C26_PatternsWellFormed ==
    change_check_strategy = Hfc => C26_RowsWellFormed /\ C26_WrittenWithinSample

\* A relearned pattern of two indices, written next to an older row.
C26_Witness ==
    /\ change_check_strategy = Hfc
    /\ PatternStale(last)
    /\ Len(last.wrote) = 1
    /\ last.wrote[1].pattern = <<"0", COMMA, "1">>
    /\ Len(transform(last.fetched[1])) = 2
    /\ last.had >= 1

---------------------------------------------------------------------------
(* C27 *)

\* The latest call fetched a text that differs from what the site's latest
\* row, the one written last before the call, holds; or the site had no row.
NoPrior(c) == rows_before(c) = <<>>

Differs(c) ==
    /\ ~NoPrior(c)
    /\ create_fingerprint(c.fetched[1])
           # rows_before(c)[Len(rows_before(c))].fingerprint

\* C27: a NaiveCheckStrategy.change_check call that fetched its text returns
\* True exactly when the site had a SiteChange and the text's fingerprint
\* differs from the latest stored one; it writes a row, with that fingerprint,
\* exactly when the site had none or the fingerprint differs, and no row
\* otherwise.
C27_NaiveReportsAndWritesOnDifference ==
    (change_check_strategy = Naive /\ last.url # "" /\ last.fetched # <<>>) =>
        /\ last.raised = ""
        /\ last.value = Differs(last)
        /\ IF NoPrior(last) \/ Differs(last)
           THEN /\ Len(last.wrote) = 1
                /\ last.wrote[1].site_id = last.site_id
                /\ last.wrote[1].fingerprint = create_fingerprint(last.fetched[1])
           ELSE last.wrote = <<>>

\* The page is back at a text it had before: the call reports the change
\* from the latest row although an earlier row holds the fingerprint.
C27_Witness ==
    /\ change_check_strategy = Naive
    /\ last.url # ""
    /\ last.value = TRUE
    /\ Len(last.wrote) = 1
    /\ Len(rows_before(last)) >= 2
    /\ rows_before(last)[1].fingerprint = last.wrote[1].fingerprint

=============================================================================
